---- MODULE Spec2Model ----
(***************************************************************************)
(* decode_token.py: look up <home>/AppData/Local/tupy/spotify.<id>.token,  *)
(* and when it exists read it, base64-decode it, parse the bytes as JSON   *)
(* and print the value with 2-space indentation.                           *)
(*                                                                         *)
(* Text and bytes are sequences of code points / byte values (naturals).   *)
(* The token file is written by an external owner process, modelled as the *)
(* environment: it serialises a JSON text item by item, may stop early,    *)
(* and stores it base64-encoded, possibly through a lossy transport.       *)
(***************************************************************************)
EXTENDS Integers, Sequences, FiniteSets, TLC

\* Largest number of items (a scalar, an opening or a closing bracket, each
\* with its separator and key) the owner process writes into one token text.
MaxItems == 5

VARIABLES
    doc,      \* owner: the JSON text serialised so far (code points)
    open,     \* owner: the containers of doc still open, innermost last
    written,  \* owner: number of items written into doc
    fs,       \* file system: path |-> [content, readable], existing files only
    pc,       \* program: position in the script
    argv,     \* program: sys.argv
    path,     \* program: the Path built on line 7 (<<>> before)
    handle,   \* program: the open file f of line 9 (<<>> when none)
    data,     \* program: f.read()
    raw,      \* program: b64decode(...)
    value,    \* program: loads(...)
    stdout,   \* program: what was written to standard output
    exit,     \* program: <<>> while running, <<code>> once the process ended
    err,      \* program: the unhandled exception that ended it ("" if none)
    reads,    \* program: the paths whose content was read, in order
    writes    \* program: number of print calls completed

vars == <<doc, open, written, fs, pc, argv, path, handle, data, raw, value, stdout,
          exit, err, reads, writes>>

ownerVars == <<doc, open, written, fs>>
progVars == <<pc, argv, path, handle, data, raw, value, stdout, exit, err,
              reads, writes>>

-----------------------------------------------------------------------------
(* Characters *)

\* Code points of the characters the texts are made of.
CP == [c \in {"{", "}", "[", "]", ",", ":", "\"", "a", "b", "0", "1", "2",
              "9", "N", " ", "\n", "=", "e'", "-", "+", ".", "e", "E", "I",
              "n", "f", "i", "t", "y"} |->
        CASE c = "{" -> 123 [] c = "}" -> 125 [] c = "[" -> 91 [] c = "]" -> 93
          [] c = "," -> 44 [] c = ":" -> 58 [] c = "\"" -> 34
          [] c = "a" -> 97 [] c = "b" -> 98
          [] c = "0" -> 48 [] c = "1" -> 49 [] c = "2" -> 50 [] c = "9" -> 57
          [] c = "N" -> 78 [] c = " " -> 32 [] c = "\n" -> 10
          [] c = "=" -> 61 [] c = "e'" -> 233 [] c = "-" -> 45
          [] c = "+" -> 43 [] c = "." -> 46 [] c = "e" -> 101 [] c = "E" -> 69
          [] c = "I" -> 73 [] c = "n" -> 110 [] c = "f" -> 102
          [] c = "i" -> 105 [] c = "t" -> 116 [] c = "y" -> 121]

\* The text of a TLA+ tuple of one-character strings.
Str(cs) == [i \in 1..Len(cs) |-> CP[cs[i]]]

-----------------------------------------------------------------------------
(* The standard library, as the script uses it *)

\* binascii's table_a2b_base64: the 6-bit value of a code point, 64 for a
\* code point outside the standard alphabet.
B64Value(c) ==
    IF c >= 65 /\ c <= 90 THEN c - 65
    ELSE IF c >= 97 /\ c <= 122 THEN c - 71
    ELSE IF c >= 48 /\ c <= 57 THEN c + 4
    ELSE IF c = 43 THEN 62
    ELSE IF c = 47 THEN 63
    ELSE 64

\* The inverse table, used by the owner's encoder.
B64Char(v) ==
    IF v < 26 THEN v + 65
    ELSE IF v < 52 THEN v + 71
    ELSE IF v < 62 THEN v - 4
    ELSE IF v = 62 THEN 43
    ELSE 47

Failure(e) == [ok |-> FALSE, err |-> e, val |-> <<>>]
Success(v) == [ok |-> TRUE, err |-> "", val |-> v]

\* binascii.a2b_base64 in its default, non-strict mode. Its loop skips the
\* code points outside the alphabet; it skips a '=' too, unless the quad
\* under way already holds 2 data characters and this '=' completes its
\* padding (the first '=' after 3 data characters, the second of two
\* adjacent ones after 2), which ends the input there. What is read up to
\* that point must fill whole quads, or end in such a pad sequence. Written
\* here over the positions of the input rather than as the loop.
A2BBase64(s) ==
    LET seq == SelectSeq(s, LAMBDA c : c = CP["="] \/ B64Value(c) < 64)
        quad(i) == Cardinality({j \in 1..(i - 1) : seq[j] # CP["="]}) % 4
        stops == {i \in 1..Len(seq) :
                    /\ seq[i] = CP["="]
                    /\ \/ quad(i) = 3
                       \/ quad(i) = 2 /\ i > 1 /\ seq[i - 1] = CP["="]}
        stop == IF stops = {} THEN Len(seq) + 1
                ELSE CHOOSE i \in stops : \A j \in stops : i <= j
        d == SelectSeq(SubSeq(seq, 1, stop - 1), LAMBDA c : c # CP["="])
        n == Len(d)
        nbytes == 3 * (n \div 4) + (IF n % 4 = 0 THEN 0 ELSE (n % 4) - 1)
    IN  IF stops = {} /\ n % 4 # 0 THEN Failure("binascii.Error")
        ELSE Success([k \in 1..nbytes |->
                LET g == (k - 1) \div 3
                    r == (k - 1) % 3
                    a == B64Value(d[4 * g + r + 1])
                    b == B64Value(d[4 * g + r + 2])
                IN  CASE r = 0 -> a * 4 + (b \div 16)
                      [] r = 1 -> (a % 16) * 16 + (b \div 4)
                      [] OTHER -> (a % 4) * 64 + b])

\* b64decode that first completes the padding, and takes any text.
b64decodePadded(s) == A2BBase64(s \o <<CP["="], CP["="]>>)

\* base64.b64decode(s) for a str s: s.encode("ascii") first, which raises
\* ValueError on a non-ASCII character, then a2b_base64.
b64decode(s) ==
    IF \E i \in 1..Len(s) : s[i] >= 128
    THEN Failure("ValueError")
    ELSE A2BBase64(s)


-----------------------------------------------------------------------------
(* json.loads: the parsed values *)

\* Python values: int; float, which is nan (no component), inf or -inf (the
\* sign, 1 or -1), or finite and kept as the decimal it was read from (sign,
\* digits m and exponent e, standing for sign * m * 10^e); str; list; and
\* dict as its items in insertion order (keys unique).
PyInt(n) == [t |-> "int", v |-> <<n>>]
PyNaN == [t |-> "float", v |-> <<>>]
PyInf == [t |-> "float", v |-> <<1>>]
PyNegInf == [t |-> "float", v |-> <<0 - 1>>]
RECURSIVE PyFinite(_, _, _)
PyFinite(sign, m, e) ==
    IF m = 0 THEN [t |-> "float", v |-> <<sign, 0, 0>>]
    ELSE IF m % 10 = 0 THEN PyFinite(sign, m \div 10, e + 1)
    ELSE [t |-> "float", v |-> <<sign, m, e>>]
PyList(vs) == [t |-> "list", v |-> vs]
PyDict(items) == [t |-> "dict", v |-> items]

\* DictSet with the key moved: an assignment to a key already present drops
\* the old item and puts the new one last.
DictSetMoveToEnd(d, k, v) ==
    Append(SelectSeq(d, LAMBDA x : x[1] # k), <<k, v>>)

\* d[k] = v on a dict: a key already present keeps its place and takes the
\* new value, a new key goes last.
DictSet(d, k, v) ==
    IF \E i \in 1..Len(d) : d[i][1] = k
    THEN [i \in 1..Len(d) |-> IF d[i][1] = k THEN <<k, v>> ELSE d[i]]
    ELSE Append(d, <<k, v>>)

\* dict(pairs)
RECURSIVE DictOf(_, _)
DictOf(pairs, d) ==
    IF pairs = <<>> THEN d
    ELSE DictOf(Tail(pairs), DictSet(d, Head(pairs)[1], Head(pairs)[2]))

\* json.decoder.WHITESPACE: space, tab, line feed, carriage return.
IsWs(c) == c \in {32, 9, 10, 13}

\* WHITESPACE.match(s, i).end(): the first index from i on that holds no
\* whitespace (Len(s) + 1 at the end of s).
RECURSIVE SkipWs(_, _)
SkipWs(s, i) ==
    IF i <= Len(s) /\ IsWs(s[i]) THEN SkipWs(s, i + 1) ELSE i

\* s[i:i+1], 0 standing for the empty slice at the end of s.
At(s, i) == IF i >= 1 /\ i <= Len(s) THEN s[i] ELSE 0

ScanOk(v, e) == [ok |-> TRUE, val |-> v, end |-> e]
ScanFail == [ok |-> FALSE, val |-> <<>>, end |-> 0]

\* scanstring(s, end): the characters up to the closing quote. A control
\* character inside the string, or no closing quote, is an error. (The
\* texts of this model hold no backslash: escapes are not modelled.)
RECURSIVE ScanString(_, _, _)
ScanString(s, i, acc) ==
    IF i > Len(s) THEN ScanFail
    ELSE IF s[i] = CP["\""] THEN ScanOk(acc, i + 1)
    ELSE IF s[i] < 32 THEN ScanFail
    ELSE ScanString(s, i + 1, Append(acc, s[i]))

IsDigit(c) == c >= 48 /\ c <= 57

\* The digits matched by \d* from i on, as [val, end] continuing from val.
RECURSIVE ScanDigits(_, _, _)
ScanDigits(s, i, n) ==
    IF i <= Len(s) /\ IsDigit(s[i])
    THEN ScanDigits(s, i + 1, n * 10 + (s[i] - 48))
    ELSE [val |-> n, end |-> i]

\* The decimal digits of a natural number.
RECURSIVE Digits(_)
Digits(n) ==
    IF n < 10 THEN <<48 + n>> ELSE Append(Digits(n \div 10), 48 + (n % 10))

RECURSIVE Pow10(_)
Pow10(k) == IF k = 0 THEN 1 ELSE 10 * Pow10(k - 1)

\* float(text) for the text of sign * m * 10^e, m of 9 digits at most. A
\* number above the largest double, 1.797693134...e308, gives inf, and one
\* below 1e-324 gives zero. (From 1e-324 to the smallest normal double,
\* near 2.2e-308, float() rounds to fewer digits: taken here as written.)
ParseFloat(sign, m, e) ==
    LET n == Len(Digits(m))
    IN  IF m # 0 /\ (n + e > 309
                       \/ (n + e = 309 /\ m * Pow10(9 - n) > 179769313))
        THEN IF sign = 1 THEN PyInf ELSE PyNegInf
        ELSE IF m # 0 /\ n + e < 0 - 323
        THEN PyFinite(sign, 0, 0)
        ELSE PyFinite(sign, m, e)

\* The exponent of NUMBER_RE, ([eE][-+]?\d+)?, after an integer and fraction
\* that read as the digits num.val with `places` decimals and end before
\* num.end; and what the scanner makes of the match: float(text) when there
\* is a fraction or an exponent, int(text) otherwise.
ScanExponent(s, neg, num, places) ==
    LET sign == IF neg THEN 0 - 1 ELSE 1
        x == IF At(s, num.end + 1) \in {CP["-"], CP["+"]}
             THEN num.end + 2 ELSE num.end + 1
    IN  IF At(s, num.end) \in {CP["e"], CP["E"]} /\ IsDigit(At(s, x))
        THEN LET exp == ScanDigits(s, x, 0)
                 e == IF At(s, num.end + 1) = CP["-"]
                      THEN 0 - exp.val ELSE exp.val
             IN  ScanOk(ParseFloat(sign, num.val, e - places), exp.end)
        ELSE IF places > 0
        THEN ScanOk(ParseFloat(sign, num.val, 0 - places), num.end)
        ELSE ScanOk(PyInt(sign * num.val), num.end)

\* The fraction of NUMBER_RE, (\.\d+)?, after an integer that reads as
\* int.val and ends before int.end.
ScanFraction(s, neg, int) ==
    IF At(s, int.end) = CP["."] /\ IsDigit(At(s, int.end + 1))
    THEN LET frac == ScanDigits(s, int.end + 1, int.val)
         IN  ScanExponent(s, neg, frac, frac.end - (int.end + 1))
    ELSE ScanExponent(s, neg, int, 0)

\* NUMBER_RE.match(s, i), (-?(?:0|[1-9]\d*))(\.\d+)?([eE][-+]?\d+)?
ScanNumber(s, i) ==
    LET neg == At(s, i) = CP["-"]
        j == IF neg THEN i + 1 ELSE i
    IN  IF ~IsDigit(At(s, j)) THEN ScanFail
        ELSE ScanFraction(s, neg, IF s[j] = CP["0"]
                                  THEN [val |-> 0, end |-> j + 1]
                                  ELSE ScanDigits(s, j, 0))

RECURSIVE ScanOnce(_, _)
RECURSIVE JSONArrayLoop(_, _, _)
RECURSIVE JSONObjectLoop(_, _, _)

\* JSONArray's while loop: i is the index of the next value.
JSONArrayLoop(s, i, values) ==
    LET r == ScanOnce(s, i)
    IN  IF ~r.ok THEN ScanFail
        ELSE LET vs == Append(values, r.val)
                 j == SkipWs(s, r.end)
             IN  IF At(s, j) = CP["]"] THEN ScanOk(PyList(vs), j + 1)
                 ELSE IF At(s, j) # CP[","] THEN ScanFail
                 ELSE JSONArrayLoop(s, SkipWs(s, j + 1), vs)

\* JSONArray((s, end), scan_once): end is the index after '['.
JSONArray(s, end) ==
    LET i == SkipWs(s, end)
    IN  IF At(s, i) = CP["]"] THEN ScanOk(PyList(<<>>), i + 1)
        ELSE JSONArrayLoop(s, i, <<>>)

\* JSONObject's while loop: i is the index after the opening quote of the
\* next key; the pairs are made a dict when the object closes.
JSONObjectLoop(s, i, pairs) ==
    LET k == ScanString(s, i, <<>>)
    IN  IF ~k.ok THEN ScanFail
        ELSE LET c == SkipWs(s, k.end)
             IN  IF At(s, c) # CP[":"] THEN ScanFail
                 ELSE LET r == ScanOnce(s, SkipWs(s, c + 1))
                      IN  IF ~r.ok THEN ScanFail
                          ELSE LET ps == Append(pairs, <<k.val, r.val>>)
                                   j == SkipWs(s, r.end)
                               IN  IF At(s, j) = CP["}"]
                                   THEN ScanOk(PyDict(DictOf(ps, <<>>)), j + 1)
                                   ELSE IF At(s, j) # CP[","] THEN ScanFail
                                   ELSE LET q == SkipWs(s, j + 1)
                                        IN  IF At(s, q) # CP["\""]
                                            THEN ScanFail
                                            ELSE JSONObjectLoop(s, q + 1, ps)

\* JSONObject((s, end), ...): end is the index after '{'.
JSONObject(s, end) ==
    LET i == SkipWs(s, end)
    IN  IF At(s, i) = CP["}"] THEN ScanOk(PyDict(<<>>), i + 1)
        ELSE IF At(s, i) # CP["\""] THEN ScanFail
        ELSE JSONObjectLoop(s, i + 1, <<>>)

\* s[i:i+len(lit)] == lit
HasAt(s, i, lit) ==
    i + Len(lit) - 1 <= Len(s) /\ SubSeq(s, i, i + Len(lit) - 1) = lit

\* scanner.scan_once(s, idx): dispatch on the first character. (The texts
\* of this model do not spell null, true or false.)
ScanOnce(s, idx) ==
    LET c == At(s, idx)
    IN  IF c = CP["\""]
        THEN LET r == ScanString(s, idx + 1, <<>>)
             IN  IF r.ok THEN ScanOk([t |-> "str", v |-> r.val], r.end)
                 ELSE ScanFail
        ELSE IF c = CP["{"] THEN JSONObject(s, idx + 1)
        ELSE IF c = CP["["] THEN JSONArray(s, idx + 1)
        ELSE IF ScanNumber(s, idx).ok THEN ScanNumber(s, idx)
        ELSE IF HasAt(s, idx, Str(<<"N", "a", "N">>))
        THEN ScanOk(PyNaN, idx + 3)
        ELSE IF HasAt(s, idx, Str(<<"I", "n", "f", "i", "n", "i", "t", "y">>))
        THEN ScanOk(PyInf, idx + 8)
        ELSE IF HasAt(s, idx,
                      Str(<<"-", "I", "n", "f", "i", "n", "i", "t", "y">>))
        THEN ScanOk(PyNegInf, idx + 9)
        ELSE ScanFail

\* JSONDecoder.decode(s) for a str s: one value between optional
\* whitespace, and nothing after it ("Extra data").
DecodeStr(s) ==
    LET r == ScanOnce(s, SkipWs(s, 1))
    IN  IF r.ok /\ SkipWs(s, r.end) = Len(s) + 1
        THEN Success(r.val)
        ELSE Failure("JSONDecodeError")

-----------------------------------------------------------------------------
(* json.loads on bytes: detect the encoding, decode, then parse *)

StartsWith(b, pre) ==
    Len(b) >= Len(pre) /\ \A i \in 1..Len(pre) : b[i] = pre[i]

\* json.detect_encoding(b)
DetectEncoding(b) ==
    IF StartsWith(b, <<0, 0, 254, 255>>) \/ StartsWith(b, <<255, 254, 0, 0>>)
    THEN "utf-32"
    ELSE IF StartsWith(b, <<254, 255>>) \/ StartsWith(b, <<255, 254>>)
    THEN "utf-16"
    ELSE IF StartsWith(b, <<239, 187, 191>>) THEN "utf-8-sig"
    ELSE IF Len(b) >= 4 /\ b[1] = 0
    THEN IF b[2] # 0 THEN "utf-16-be" ELSE "utf-32-be"
    ELSE IF Len(b) >= 4 /\ b[2] = 0
    THEN IF b[3] # 0 \/ b[4] # 0 THEN "utf-16-le" ELSE "utf-32-le"
    ELSE IF Len(b) = 2 /\ b[1] = 0 THEN "utf-16-be"
    ELSE IF Len(b) = 2 /\ b[2] = 0 THEN "utf-16-le"
    ELSE "utf-8"

\* The code units of b, each `width` bytes, little or big endian; the length
\* of b must be a multiple of the width.
Units(b, width, little) ==
    IF Len(b) % width # 0 THEN Failure("UnicodeDecodeError")
    ELSE Success([k \in 1..(Len(b) \div width) |->
            LET at(j) == b[(k - 1) * width + j]
            IN  IF width = 2
                THEN IF little THEN at(1) + 256 * at(2)
                     ELSE at(2) + 256 * at(1)
                ELSE IF little
                THEN at(1) + 256 * at(2) + 65536 * at(3) + 16777216 * at(4)
                ELSE at(4) + 256 * at(3) + 65536 * at(2) + 16777216 * at(1)])

\* b.decode(enc, "surrogatepass"). (The texts of this model are ASCII, with
\* at most a byte order mark before them: UTF-8 multi-byte sequences and
\* UTF-16 surrogate pairs are not modelled, a byte of 128 or more in UTF-8
\* text is taken as undecodable.)
BytesDecode(b, enc) ==
    CASE enc = "utf-8" ->
           IF \E i \in 1..Len(b) : b[i] >= 128
           THEN Failure("UnicodeDecodeError") ELSE Success(b)
      [] enc = "utf-8-sig" ->
           IF \E i \in 4..Len(b) : b[i] >= 128
           THEN Failure("UnicodeDecodeError")
           ELSE Success(SubSeq(b, 4, Len(b)))
      [] enc = "utf-16" ->
           Units(SubSeq(b, 3, Len(b)), 2, b[1] = 255)
      [] enc = "utf-16-le" -> Units(b, 2, TRUE)
      [] enc = "utf-16-be" -> Units(b, 2, FALSE)
      [] enc = "utf-32" ->
           Units(SubSeq(b, 5, Len(b)), 4, b[1] = 255)
      [] enc = "utf-32-le" -> Units(b, 4, TRUE)
      [] OTHER -> Units(b, 4, FALSE)

\* loads that falls back to an empty dict when the bytes do not parse.
loadsOrEmpty(b) ==
    LET s == BytesDecode(b, DetectEncoding(b))
        r == IF s.ok THEN DecodeStr(s.val) ELSE s
    IN  IF r.ok THEN r ELSE Success(PyDict(<<>>))

\* json.loads(b) for bytes b.
loads(b) ==
    LET s == BytesDecode(b, DetectEncoding(b))
    IN  IF s.ok THEN DecodeStr(s.val) ELSE s

-----------------------------------------------------------------------------
(* json.dumps(obj, indent=2): the pure-Python encoder, item separator ","  *)
(* and key separator ": ", each item on a line of its own                  *)

\* int.__repr__
IntRepr(n) == IF n < 0 THEN <<CP["-"]>> \o Digits(0 - n) ELSE Digits(n)

\* float.__repr__ of a finite float sign * m * 10^e, m without trailing
\* zeros: the digits of m with the decimal point after the first decpt of
\* them; in exponent notation when decpt is above 16 or below -3, the
\* exponent in two digits at least. (m has 15 digits at most, so that they
\* are the shortest digits that give the float back.)
FloatRepr(sign, m, e) ==
    LET D == Digits(m)
        n == Len(D)
        decpt == n + e
        zeros(k) == [i \in 1..k |-> CP["0"]]
        x == IF decpt - 1 < 0 THEN 1 - decpt ELSE decpt - 1
        body ==
            IF m = 0 THEN Str(<<"0", ".", "0">>)
            ELSE IF decpt > 16 \/ decpt < 0 - 3
            THEN <<D[1]>>
                   \o (IF n > 1 THEN <<CP["."]>> \o SubSeq(D, 2, n) ELSE <<>>)
                   \o <<CP["e"], IF decpt - 1 < 0 THEN CP["-"] ELSE CP["+"]>>
                   \o (IF x < 10 THEN <<CP["0"]>> ELSE <<>>) \o Digits(x)
            ELSE IF decpt <= 0
            THEN Str(<<"0", ".">>) \o zeros(0 - decpt) \o D
            ELSE IF decpt >= n
            THEN D \o zeros(decpt - n) \o Str(<<".", "0">>)
            ELSE SubSeq(D, 1, decpt) \o <<CP["."]>> \o SubSeq(D, decpt + 1, n)
    IN  (IF sign = 1 THEN <<>> ELSE <<CP["-"]>>) \o body

\* encoder.floatstr: NaN, Infinity and -Infinity for the floats that are
\* not finite (allow_nan is true), float.__repr__ for the others.
FloatStr(o) ==
    IF o = PyNaN THEN Str(<<"N", "a", "N">>)
    ELSE IF o = PyInf THEN Str(<<"I", "n", "f", "i", "n", "i", "t", "y">>)
    ELSE IF o = PyNegInf
    THEN Str(<<"-", "I", "n", "f", "i", "n", "i", "t", "y">>)
    ELSE FloatRepr(o.v[1], o.v[2], o.v[3])

\* "\n" followed by the indentation of a nesting level.
NewlineIndent(level) ==
    <<CP["\n"]>> \o [i \in 1..(2 * level) |-> CP[" "]]

\* Strings quoted as repr() quotes them, with apostrophes.
EncodeStringRepr(cs) == <<39>> \o cs \o <<39>>

\* encode_basestring_ascii on the strings of this model, which need no
\* escape.
EncodeString(cs) == <<CP["\""]>> \o cs \o <<CP["\""]>>

RECURSIVE Dumps(_, _)
RECURSIVE DumpItems(_, _, _)

\* The items of a list (isDict FALSE) or dict (isDict TRUE) one nesting level
\* down, joined by the item separator and a new line.
DumpItems(items, isDict, level) ==
    LET one(x) == IF isDict
                  THEN EncodeString(x[1]) \o <<CP[":"], CP[" "]>>
                         \o Dumps(x[2], level)
                  ELSE Dumps(x, level)
    IN  IF Len(items) = 1 THEN one(items[1])
        ELSE one(items[1]) \o <<CP[","]>> \o NewlineIndent(level)
               \o DumpItems(Tail(items), isDict, level)

\* _iterencode(o, level), joined.
Dumps(o, level) ==
    CASE o.t = "int" -> IntRepr(o.v[1])
      [] o.t = "float" -> FloatStr(o)
      [] o.t = "str" -> EncodeString(o.v)
      [] o.t = "list" ->
           IF o.v = <<>> THEN Str(<<"[", "]">>)
           ELSE <<CP["["]>> \o NewlineIndent(level + 1)
                  \o DumpItems(o.v, FALSE, level + 1)
                  \o NewlineIndent(level) \o <<CP["]"]>>
      [] OTHER ->
           IF o.v = <<>> THEN Str(<<"{", "}">>)
           ELSE <<CP["{"]>> \o NewlineIndent(level + 1)
                  \o DumpItems(o.v, TRUE, level + 1)
                  \o NewlineIndent(level) \o <<CP["}"]>>

dumps(o) == Dumps(o, 0)

-----------------------------------------------------------------------------
(* The environment: paths, and the owner process of the token file *)

\* Path.home()
Home == "~"

\* Path.home().joinpath("AppData", "Local", "tupy", f"spotify.{id}.token")
TokenPath(id) ==
    <<Home, "AppData", "Local", "tupy", "spotify." \o id \o ".token">>

\* The identifiers a run may be given; the owner writes the token of OwnerId.
Ids == {"foo", "bar"}
OwnerId == "foo"
OwnerPath == TokenPath(OwnerId)

\* sys.argv of a run: the script name, then the arguments.
Argvs == {<<"decode_token.py">>} \cup {<<"decode_token.py", id>> : id \in Ids}

Keys == {"a", "b"}
Scalars == {<<"1">>, <<"2">>, <<"N", "a", "N">>}
\* A number beyond the range of a double.
OutOfRange == <<"1", "e", "9", "9", "9">>
Kinds == {"object", "array"}

InObject == open # <<>> /\ open[Len(open)] = "object"

\* What precedes an item: a comma after an earlier item of the same
\* container, and the key when the container is an object.
Lead(k) ==
    (IF doc # <<>> /\ doc[Len(doc)] \notin {CP["{"], CP["["]}
     THEN <<CP[","]>> ELSE <<>>)
    \o (IF InObject THEN Str(<<"\"", k, "\"", ":">>) ELSE <<>>)

\* The keys to choose from for the next item (one dummy outside an object).
KeyChoices == IF InObject THEN Keys ELSE {"a"}

\* The scalars to choose from for the next item (the number out of range as
\* an array element or as the whole text only, which bounds the texts).
ScalarChoices == IF InObject THEN Scalars ELSE Scalars \cup {OutOfRange}

\* The text is a finished JSON document as far as the owner's serialiser
\* goes: every container closed.
Complete == doc # <<>> /\ open = <<>>

\* base64.b64encode, by which the owner stores the bytes: each group of 3
\* bytes gives 4 characters, a last group of 1 or 2 bytes is padded with '='.
B64Encode(b) ==
    LET n == Len(b)
        byte(i) == IF i <= n THEN b[i] ELSE 0
    IN  [p \in 1..(4 * ((n + 2) \div 3)) |->
            LET g == (p - 1) \div 4
                r == (p - 1) % 4
                b1 == byte(3 * g + 1)
                b2 == byte(3 * g + 2)
                b3 == byte(3 * g + 3)
            IN  CASE r = 0 -> B64Char(b1 \div 4)
                  [] r = 1 -> B64Char((b1 % 4) * 16 + (b2 \div 16))
                  [] r = 2 -> IF 3 * g + 2 > n THEN CP["="]
                              ELSE B64Char((b2 % 16) * 4 + (b3 \div 64))
                  [] OTHER -> IF 3 * g + 3 > n THEN CP["="]
                              ELSE B64Char(b3 % 64)]

\* s without its trailing '=' padding.
RECURSIVE StripPad(_)
StripPad(s) ==
    IF s # <<>> /\ s[Len(s)] = CP["="]
    THEN StripPad(SubSeq(s, 1, Len(s) - 1)) ELSE s

\* text.encode("utf-16") on a little-endian machine, byte order mark first.
Utf16(text) ==
    <<255, 254>> \o [i \in 1..(2 * Len(text)) |->
                        IF i % 2 = 1 THEN text[(i + 1) \div 2] ELSE 0]

\* The ways the owner stores a text.
Formats == {"plain", "bom", "utf16", "newline", "nopad", "junk"}

\* The file content for a text stored in a format: plain base64 of the UTF-8
\* bytes; of the bytes after a UTF-8 byte order mark; of the UTF-16 bytes;
\* base64 with a line feed after it; without its padding; with a stray
\* non-ASCII character after it.
Stored(fmt, text) ==
    CASE fmt = "plain" -> B64Encode(text)
      [] fmt = "bom" -> B64Encode(<<239, 187, 191>> \o text)
      [] fmt = "utf16" -> B64Encode(Utf16(text))
      [] fmt = "newline" -> B64Encode(text) \o <<CP["\n"]>>
      [] fmt = "nopad" -> StripPad(B64Encode(text))
      [] OTHER -> B64Encode(text) \o <<CP["e'"]>>

\* The owner serialises before it stores, and before the script is started.
CanWrite == pc = "idle" /\ OwnerPath \notin DOMAIN fs /\ ~Complete

WriteScalar(k, s) ==
    /\ CanWrite
    /\ written + 1 + Len(open) <= MaxItems
    /\ doc' = doc \o Lead(k) \o Str(s)
    /\ written' = written + 1
    /\ UNCHANGED <<open, fs>>
    /\ UNCHANGED progVars

OpenContainer(k, kind) ==
    /\ CanWrite
    /\ written + 2 + Len(open) <= MaxItems
    /\ doc' = doc \o Lead(k) \o <<IF kind = "object" THEN CP["{"] ELSE CP["["]>>
    /\ open' = Append(open, kind)
    /\ written' = written + 1
    /\ UNCHANGED fs
    /\ UNCHANGED progVars

CloseContainer ==
    /\ CanWrite
    /\ open # <<>>
    /\ doc' = doc \o <<IF InObject THEN CP["}"] ELSE CP["]"]>>
    /\ open' = SubSeq(open, 1, Len(open) - 1)
    /\ written' = written + 1
    /\ UNCHANGED fs
    /\ UNCHANGED progVars

\* The owner stores what it has serialised so far, finished or not.
Publish(fmt) ==
    /\ pc = "idle"
    /\ OwnerPath \notin DOMAIN fs
    /\ fs' = (OwnerPath :> [content |-> Stored(fmt, doc), readable |-> TRUE])
               @@ fs
    /\ UNCHANGED <<doc, open, written>>
    /\ UNCHANGED progVars

\* The owner takes the read permission away.
Chmod ==
    /\ pc = "idle"
    /\ OwnerPath \in DOMAIN fs
    /\ fs[OwnerPath].readable
    /\ fs' = [fs EXCEPT ![OwnerPath].readable = FALSE]
    /\ UNCHANGED <<doc, open, written>>
    /\ UNCHANGED progVars

\* The owner deletes the token file.
Unlink ==
    /\ OwnerPath \in DOMAIN fs
    /\ fs' = [p \in DOMAIN fs \ {OwnerPath} |-> fs[p]]
    /\ UNCHANGED <<doc, open, written>>
    /\ UNCHANGED progVars

\* ... before the script is started
Delete == pc = "idle" /\ Unlink

\* ... while the script runs
DeleteDuringRun == pc \notin {"idle", "done"} /\ Unlink

-----------------------------------------------------------------------------
(* decode_token.py *)

\* The exception caught and dropped: the process ends with exit code 0.
FatalSwallowed(e) ==
    /\ pc' = "done"
    /\ exit' = <<0>>
    /\ err' = e

\* An unhandled exception: the interpreter prints the traceback to standard
\* error and the process ends with exit code 1.
Fatal(e) ==
    /\ pc' = "done"
    /\ exit' = <<1>>
    /\ err' = e

\* The process is started with a command line.
Launch(a) ==
    /\ pc = "idle"
    /\ pc' = "start"
    /\ argv' = a
    /\ UNCHANGED <<path, handle, data, raw, value, stdout, exit, err, reads,
                   writes>>
    /\ UNCHANGED ownerVars

\* Line 7 with argv[-1]: the last element, the script name when no argument
\* was given.
LocateLastArg ==
    /\ pc = "start"
    /\ path' = TokenPath(argv[Len(argv)])
    /\ pc' = "located"
    /\ UNCHANGED <<argv, handle, data, raw, value, stdout, exit, err, reads,
                   writes>>
    /\ UNCHANGED ownerVars

\* Line 7: argv[1] raises IndexError when no argument was given.
Locate ==
    /\ pc = "start"
    /\ IF Len(argv) < 2
       THEN Fatal("IndexError") /\ UNCHANGED path
       ELSE /\ path' = TokenPath(argv[2])
            /\ pc' = "located"
            /\ UNCHANGED <<exit, err>>
    /\ UNCHANGED <<argv, handle, data, raw, value, stdout, reads, writes>>
    /\ UNCHANGED ownerVars

\* Line 8 without the test: the script goes on to open the file.
ExistsCheckSkipped ==
    /\ pc = "located"
    /\ pc' = "exists"
    /\ UNCHANGED <<argv, path, handle, data, raw, value, stdout, exit, err,
                   reads, writes>>
    /\ UNCHANGED ownerVars

\* Line 8: path.exists(); when it is false the script has nothing left to do.
ExistsCheck ==
    /\ pc = "located"
    /\ IF path \in DOMAIN fs
       THEN pc' = "exists" /\ UNCHANGED exit
       ELSE pc' = "done" /\ exit' = <<0>>
    /\ UNCHANGED <<argv, path, handle, data, raw, value, stdout, err, reads,
                   writes>>
    /\ UNCHANGED ownerVars

\* Line 9 with path.open("w+"): opening truncates the file.
OpenTruncating ==
    /\ pc = "exists"
    /\ IF path \notin DOMAIN fs
       THEN Fatal("FileNotFoundError") /\ UNCHANGED <<handle, fs>>
       ELSE IF ~fs[path].readable
       THEN Fatal("PermissionError") /\ UNCHANGED <<handle, fs>>
       ELSE /\ handle' = <<(<<>>)>>
            /\ fs' = [fs EXCEPT ![path].content = <<>>]
            /\ pc' = "opened"
            /\ UNCHANGED <<exit, err>>
    /\ UNCHANGED <<argv, path, data, raw, value, stdout, reads, writes>>
    /\ UNCHANGED <<doc, open, written>>

\* Line 9: path.open("r")
Open ==
    /\ pc = "exists"
    /\ IF path \notin DOMAIN fs
       THEN Fatal("FileNotFoundError") /\ UNCHANGED handle
       ELSE IF ~fs[path].readable
       THEN Fatal("PermissionError") /\ UNCHANGED handle
       ELSE /\ handle' = <<fs[path].content>>
            /\ pc' = "opened"
            /\ UNCHANGED <<exit, err>>
    /\ UNCHANGED <<argv, path, data, raw, value, stdout, reads, writes>>
    /\ UNCHANGED ownerVars

\* Line 10: f.read()
Read ==
    /\ pc = "opened"
    /\ data' = handle[1]
    /\ reads' = Append(reads, path)
    /\ pc' = "read"
    /\ UNCHANGED <<argv, path, handle, raw, value, stdout, exit, err, writes>>
    /\ UNCHANGED ownerVars

\* Line 10 with the decoded bytes echoed to standard output before they are
\* parsed.
DecodeEcho ==
    /\ pc = "read"
    /\ LET r == b64decode(data)
       IN  IF r.ok
           THEN /\ raw' = r.val
                /\ stdout' = stdout \o r.val
                /\ pc' = "decoded"
                /\ UNCHANGED <<handle, exit, err>>
           ELSE Fatal(r.err) /\ handle' = <<>> /\ UNCHANGED <<raw, stdout>>
    /\ UNCHANGED <<argv, path, data, value, reads, writes>>
    /\ UNCHANGED ownerVars

\* Line 10: b64decode(...); an exception leaves the with block, closing f.
Decode ==
    /\ pc = "read"
    /\ LET r == b64decode(data)
       IN  IF r.ok
           THEN /\ raw' = r.val
                /\ pc' = "decoded"
                /\ UNCHANGED <<handle, exit, err>>
           ELSE Fatal(r.err) /\ handle' = <<>> /\ UNCHANGED raw
    /\ UNCHANGED <<argv, path, data, value, stdout, reads, writes>>
    /\ UNCHANGED ownerVars

\* Line 10: loads(...)
Parse ==
    /\ pc = "decoded"
    /\ LET r == loads(raw)
       IN  IF r.ok
           THEN /\ value' = r.val
                /\ pc' = "parsed"
                /\ UNCHANGED <<handle, exit, err>>
           ELSE Fatal(r.err) /\ handle' = <<>> /\ UNCHANGED value
    /\ UNCHANGED <<argv, path, data, raw, stdout, reads, writes>>
    /\ UNCHANGED ownerVars

\* Line 10: print(dumps(..., indent=2)); then the with block closes f and the
\* script ends.
PrintStep ==
    /\ pc = "parsed"
    /\ stdout' = stdout \o dumps(value) \o <<CP["\n"]>>
    /\ writes' = writes + 1
    /\ handle' = <<>>
    /\ pc' = "done"
    /\ exit' = <<0>>
    /\ UNCHANGED <<argv, path, data, raw, value, err, reads>>
    /\ UNCHANGED ownerVars

-----------------------------------------------------------------------------
(* Specifications *)

Init ==
    /\ doc = <<>>
    /\ open = <<>>
    /\ written = 0
    /\ fs = <<>>
    /\ pc = "idle"
    /\ argv = <<>>
    /\ path = <<>>
    /\ handle = <<>>
    /\ data = <<>>
    /\ raw = <<>>
    /\ value = <<>>
    /\ stdout = <<>>
    /\ exit = <<>>
    /\ err = ""
    /\ reads = <<>>
    /\ writes = 0

\* The owner sets the file system up before the script is started, and
\* leaves it alone during the run.
Next ==
    \/ \E k \in KeyChoices, s \in ScalarChoices : WriteScalar(k, s)
    \/ \E k \in KeyChoices, kind \in Kinds : OpenContainer(k, kind)
    \/ CloseContainer
    \/ \E fmt \in Formats : Publish(fmt)
    \/ Chmod
    \/ Delete
    \/ \E a \in Argvs : Launch(a)
    \/ Locate
    \/ ExistsCheck
    \/ Open
    \/ Read
    \/ Decode
    \/ Parse
    \/ PrintStep

Spec == Init /\ [][Next]_vars

\* The owner may also delete the token file at any point of a run.
NextRace == Next \/ DeleteDuringRun

SpecRace == Init /\ [][NextRace]_vars

-----------------------------------------------------------------------------
(* Vocabulary of the properties *)

\* The script has ended.
Done == pc = "done"

\* The run was given an identifier.
HasArg == Len(argv) >= 2

\* The token file of the run's identifier does not exist.
TokenFileMissing == HasArg /\ TokenPath(argv[2]) \notin DOMAIN fs

\* The run is for the owner's identifier, and the owner's file is there,
\* readable, with this content.
TokenFileIs(content) ==
    /\ HasArg /\ argv[2] = OwnerId
    /\ OwnerPath \in DOMAIN fs
    /\ fs[OwnerPath].readable
    /\ fs[OwnerPath].content = content

\* s is JSON text (RFC 8259): text that the decoder parses, and that holds
\* none of NaN, Infinity and -Infinity, which the decoder parses as well
\* (the letters N and I occur in these only).
JsonText(s) ==
    /\ DecodeStr(s).ok
    /\ \A i \in 1..Len(s) : s[i] \notin {CP["N"], CP["I"]}

\* The owner's text is valid JSON.
ValidJsonText == JsonText(doc)

\* A Python value holds inf or -inf.
RECURSIVE HasInf(_)
HasInf(v) ==
    CASE v.t = "float" -> v \in {PyInf, PyNegInf}
      [] v.t = "list" -> \E i \in 1..Len(v.v) : HasInf(v.v[i])
      [] v.t = "dict" -> \E i \in 1..Len(v.v) : HasInf(v.v[i][2])
      [] OTHER -> FALSE

\* s is standard base64: characters of the alphabet in whole groups of
\* four, the last group ending in at most two '='.
StrictB64(s) ==
    /\ Len(s) % 4 = 0
    /\ \A i \in 1..Len(s) :
         \/ B64Value(s[i]) < 64
         \/ /\ s[i] = CP["="]
            /\ i >= Len(s) - 1
            /\ \A j \in (i + 1)..Len(s) : s[j] = CP["="]

\* s holds a non-ASCII character, or no '=' and a number of characters of
\* the base64 alphabet that is not a multiple of four.
Undecodable(s) ==
    \/ \E i \in 1..Len(s) : s[i] >= 128
    \/ /\ \A i \in 1..Len(s) : s[i] # CP["="]
       /\ Cardinality({i \in 1..Len(s) : B64Value(s[i]) < 64}) % 4 # 0

\* The elements of a set of indices of s, in order.
Pick(s, I) ==
    [k \in 1..Cardinality(I) |->
        s[CHOOSE i \in I : Cardinality({j \in I : j < i}) = k - 1]]

\* s without its whitespace.
Compact(s) == SelectSeq(s, LAMBDA c : ~IsWs(c))

\* Nesting depth of position i of a text: brackets opened before i and not
\* closed.
Depth(s, i) ==
    Cardinality({j \in 1..(i - 1) : s[j] \in {CP["{"], CP["["]}})
    - Cardinality({j \in 1..(i - 1) : s[j] \in {CP["}"], CP["]"]}})

\* The keys of the top-level object of a text, in the order of the text
\* (letters occur in keys only).
TopKeys(s) ==
    IF At(s, 1) # CP["{"] THEN <<>>
    ELSE Pick(s, {i \in 1..Len(s) :
                    s[i] \in {CP["a"], CP["b"]} /\ Depth(s, i) = 1})

\* ks without the later occurrences of each element.
FirstSeen(ks) ==
    Pick(ks, {i \in 1..Len(ks) : \A j \in 1..(i - 1) : ks[j] # ks[i]})

\* Position i of a text holds a key that the same object already holds
\* before: an earlier position j with the same letter, such that no bracket
\* between them goes below the depth of i, and j lies at that depth.
RepeatsKey(s, i) ==
    /\ s[i] \in {CP["a"], CP["b"]}
    /\ \E j \in 1..(i - 1) :
         /\ s[j] = s[i]
         /\ Depth(s, j) = Depth(s, i)
         /\ \A m \in j..i : Depth(s, m) >= Depth(s, i)

NoRepeatedKey(s) == \A i \in 1..Len(s) : ~RepeatsKey(s, i)

-----------------------------------------------------------------------------
(* Properties *)

\* C1: when the token file of the given identifier does not exist, the run
\* never opens or reads a file and never writes to standard output, and it
\* ends with exit code 0 and no exception.
C1_MissingFileIsSilentSuccess ==
    TokenFileMissing =>
        /\ pc \in {"start", "located", "done"}
        /\ handle = <<>> /\ reads = <<>> /\ data = <<>>
        /\ stdout = <<>> /\ writes = 0
        /\ Done => exit = <<0>> /\ err = ""

\* A run for "bar" has ended while only the token of "foo" exists.
C1_Witness ==
    /\ Done /\ HasArg /\ argv[2] = "bar"
    /\ OwnerPath \in DOMAIN fs
    /\ exit = <<0>>

C3_Original ==
    (Done /\ reads # <<>> /\ ~StrictB64(data)) =>
        /\ exit = <<1>>
        /\ ~DecodeStr(stdout).ok

\* C3 amended: a token file that holds a non-ASCII character, or no '=' and
\* a number of base64 characters that is not a multiple of four, makes the
\* run end in a decoding error with nothing on standard output.
C3_UndecodableIsFatal ==
    (Done /\ reads # <<>> /\ Undecodable(data)) =>
        /\ exit = <<1>>
        /\ err \in {"binascii.Error", "ValueError"}
        /\ stdout = <<>> /\ writes = 0

\* A file of unpadded base64 of a valid JSON text was read, and the run
\* ended in binascii.Error.
C3_Witness ==
    /\ Done /\ reads # <<>> /\ Undecodable(data)
    /\ ValidJsonText /\ data = StripPad(B64Encode(doc))
    /\ err = "binascii.Error"

\* The bytes are a text json.loads parses, in an encoding it detects: the
\* owner's finished document (NaN allowed) in UTF-8, with or without a byte
\* order mark, or in UTF-16.
LoadsAccepts ==
    /\ Complete
    /\ raw \in {doc, <<239, 187, 191>> \o doc, Utf16(doc)}

\* C4 as stated: valid base64 whose decoded bytes are not valid JSON text in
\* UTF-8 (a byte order mark before the text let pass) makes the run end in a
\* parse error with nothing on standard output.
C4_Original ==
    (Done /\ reads # <<>> /\ StrictB64(data)
       /\ ~(/\ ValidJsonText
            /\ data \in {B64Encode(doc),
                          B64Encode(<<239, 187, 191>> \o doc)})) =>
        /\ exit = <<1>>
        /\ err \in {"JSONDecodeError", "UnicodeDecodeError"}
        /\ stdout = <<>>

\* C4 amended: valid base64 whose decoded bytes are not a text json.loads
\* parses, in an encoding it detects, makes the run end in a parse error
\* with nothing on standard output.
C4_UnparsableIsFatal ==
    (Done /\ reads # <<>> /\ StrictB64(data) /\ ~LoadsAccepts) =>
        /\ exit = <<1>>
        /\ err \in {"JSONDecodeError", "UnicodeDecodeError"}
        /\ stdout = <<>> /\ writes = 0

\* A file of valid base64 of an unfinished document was read, and the run
\* ended in JSONDecodeError.
C4_Witness ==
    /\ Done /\ reads # <<>> /\ StrictB64(data)
    /\ open # <<>> /\ raw = doc
    /\ err = "JSONDecodeError"

\* C5: a run without an argument builds no path, makes no existence check,
\* opens and reads no file, writes nothing, and ends in IndexError.
C5_NoArgumentIsFatal ==
    (pc # "idle" /\ ~HasArg) =>
        /\ pc \in {"start", "done"}
        /\ path = <<>> /\ handle = <<>> /\ reads = <<>>
        /\ stdout = <<>> /\ writes = 0
        /\ Done => exit = <<1>> /\ err = "IndexError"

\* A run without an argument has ended, while the owner's file exists.
C5_Witness ==
    /\ Done /\ ~HasArg /\ err = "IndexError"
    /\ OwnerPath \in DOMAIN fs

\* C6: a run that has ended has exit code 0 exactly when it printed or its
\* token file does not exist, and exit code 1 exactly when it ended in an
\* exception: missing argument, unreadable file, decoding or parse error.
C6_ExitCode ==
    Done =>
        /\ exit \in {<<0>>, <<1>>}
        /\ exit = <<0>> <=> (writes = 1 \/ TokenFileMissing)
        /\ exit = <<1>> <=> err # ""
        /\ err \in {"", "IndexError", "PermissionError", "binascii.Error",
                    "ValueError", "JSONDecodeError", "UnicodeDecodeError"}

\* A run has ended in PermissionError on an existing file.
C6_Witness ==
    /\ Done /\ err = "PermissionError" /\ exit = <<1>>
    /\ HasArg /\ TokenPath(argv[2]) \in DOMAIN fs

\* C7: for a valid token file, the printed text without its whitespace is
\* the text of the file when no object repeats a key and no number is out
\* of range; and the keys of the top-level object are printed in the order
\* in which the text first has them, also when it repeats a key.
C7_KeyAndElementOrder ==
    (Done /\ ValidJsonText /\ TokenFileIs(B64Encode(doc)) /\ writes = 1) =>
        /\ (NoRepeatedKey(doc) /\ ~HasInf(value)) => Compact(stdout) = doc
        /\ TopKeys(stdout) = FirstSeen(TopKeys(doc))

\* An object with keys a, b, a was printed.
C7_Witness ==
    /\ Done /\ ValidJsonText /\ TokenFileIs(B64Encode(doc))
    /\ writes = 1
    /\ TopKeys(doc) = <<CP["a"], CP["b"], CP["a"]>>

\* The steps of the script, by the position they leave and the one they
\* reach: a step starts where the previous one succeeded, and any step but
\* the first and the last may end the run.
StepOrder ==
    {<<"idle", "start">>, <<"start", "located">>, <<"located", "exists">>,
     <<"exists", "opened">>, <<"opened", "read">>, <<"read", "decoded">>,
     <<"decoded", "parsed">>, <<"parsed", "done">>,
     <<"start", "done">>, <<"located", "done">>, <<"exists", "done">>,
     <<"read", "done">>, <<"decoded", "done">>}

\* C8: the script moves along locate, existence check, open, read, decode,
\* parse, print; each result is produced by its own step; standard output
\* is written by the print step alone, once, after the parse succeeded;
\* and a run that ends in an exception has written nothing.
C8_StepsInOrder ==
    [][/\ pc' # pc => <<pc, pc'>> \in StepOrder
       /\ path' # path => pc = "start"
       /\ data' # data => pc = "opened"
       /\ raw' # raw => pc = "read"
       /\ value' # value => pc = "decoded"
       /\ (stdout' # stdout \/ writes' # writes) =>
            /\ pc = "parsed" /\ stdout = <<>> /\ writes = 0
            /\ writes' = 1
            /\ reads # <<>> /\ b64decode(data).ok /\ loads(raw).ok
       /\ err' # "" => stdout' = <<>> /\ writes' = 0]_vars

\* A run has ended in a parse error, after it read and decoded the file.
C8_Witness ==
    /\ Done /\ err = "JSONDecodeError"
    /\ reads # <<>> /\ raw # <<>> /\ stdout = <<>>

\* C9: no step of the script changes the file system; at most one file is
\* read, the token file of the given identifier; at most one write is made;
\* and a run that printed made one read and one write.
C9_Effects ==
    [][/\ pc' # pc => fs' = fs
       /\ Len(reads') <= 1
       /\ reads' # <<>> => HasArg' /\ reads'[1] = TokenPath(argv'[2])
       /\ writes' <= 1
       /\ stdout' # <<>> => Len(reads') = 1 /\ writes' = 1]_vars

\* A run has printed.
C9_Witness ==
    /\ Done /\ writes = 1 /\ Len(reads) = 1 /\ stdout # <<>>

\* C10: with the owner free to delete the file during a run, a run that
\* ends without having read a file, its token file absent, ends as a silent
\* success.
C10_AbsenceIsNeverAnError ==
    (Done /\ HasArg /\ reads = <<>> /\ TokenPath(argv[2]) \notin DOMAIN fs) =>
        exit = <<0>> /\ err = "" /\ stdout = <<>>

=============================================================================
